---- MODULE Spec2Model ----
(***************************************************************************)
(* Model of the video analysis backend: the job registry and the          *)
(* ProcessingStatus records (main.py), the background pipeline             *)
(* process_video_sync running on the size-1 ThreadPoolExecutor, the API    *)
(* handlers that run on the event loop, and VisionAnalyzer.extract_frames  *)
(* (analyzer.py).                                                          *)
(*                                                                         *)
(* The worker thread is modelled statement by statement (program counter   *)
(* pc, named after the line of main.py about to execute), because the API  *)
(* handlers run on another thread and can observe the record between any   *)
(* two assignments.                                                        *)
(***************************************************************************)
EXTENDS Integers, Sequences, FiniteSets, TLC

\* ---------------------------------------------------------------- bounds
MaxJobs == 2
MaxFps == 3
MaxSrcFrames == 2

\* interval_seconds = 0.5, written as IntervalNum / IntervalDen
IntervalNum == 1
IntervalDen == 2

\* bounds of the calls of one function on its own
MaxCalls == 2
MaxRate == 4
MaxLen == 5
MaxHalfSeconds == 4
MaxPeople == 4
MaxCars == 2
MaxOthers == 1

Ids == 1..MaxJobs

\* Python's None (error_message before any failure)
None == "None"

\* A job id no upload has produced yet has no ProcessingStatus object.
NoObject == [status |-> "absent"]

\* A result file: whether it exists, whether it holds a complete JSON document,
\* and the frame results of that document.
\* The result file of a job that was never opened for writing:
NoFile == [exists |-> FALSE, entries |-> << >>, complete |-> FALSE]

\* ------------------------------------------------------------- rationals
\* progress and timestamps are Python floats; the model keeps them exact as
\* num/den with den > 0.
RECURSIVE Gcd(_, _)
Gcd(a, b) == IF b = 0 THEN a ELSE Gcd(b, a % b)

\* n/d in lowest terms, so that equal values are equal records (as equal floats are)
Rat(n, d) == [num |-> n \div Gcd(n, d), den |-> d \div Gcd(n, d)]
Int2Rat(n) == Rat(n, 1)
RatLeq(a, b) == a.num * b.den <= b.num * a.den
RatLt(a, b) == a.num * b.den < b.num * a.den
RatEq(a, b) == a.num * b.den = b.num * a.den
RatIsInt(a) == a.num % a.den = 0

\* ------------------------------------------------------- the video source
\* What cv2.VideoCapture reports for an uploaded file: whether it opens, its
\* frame rate (whole frames per second here; 0 is what OpenCV reports when it
\* cannot tell) and how many frames cap.read() delivers.
Videos ==
    [opened : BOOLEAN, fps : 0..MaxFps, nframes : 0..MaxSrcFrames]

Extracted(fr, ts) == [raised |-> None, frames |-> fr, timestamps |-> ts]
ExtractRaised(msg) == [raised |-> msg, frames |-> << >>, timestamps |-> << >>]

\* Mutant of Timestamp: floor division, frame_count // fps.
TimestampFloorDiv(frame_count, fps) == Int2Rat(frame_count \div fps)

\* analyzer.py 70: timestamp = frame_count / fps
Timestamp(frame_count, fps) == Rat(frame_count, fps)

\* analyzer.py 62-74: the read loop, frame_count from the current position.
RECURSIVE ReadLoop(_, _, _, _, _, _)
ReadLoop(fps, frame_interval, nframes, frame_count, fr, ts) ==
    IF frame_count >= nframes
    THEN Extracted(fr, ts)
    ELSE IF frame_interval = 0
    THEN ExtractRaised("integer division or modulo by zero")
    ELSE IF frame_count % frame_interval = 0
    THEN ReadLoop(fps, frame_interval, nframes, frame_count + 1,
                  Append(fr, frame_count),
                  Append(ts, Timestamp(frame_count, fps)))
    ELSE ReadLoop(fps, frame_interval, nframes, frame_count + 1, fr, ts)

\* analyzer.py 57: frame_interval = int(fps * interval_seconds), the truncation
\* of a non-negative product; interval_seconds is inum / iden
IntOfProduct(fps, inum, iden) == (fps * inum) \div iden

\* analyzer.py 36-78, for any interval_seconds = inum / iden
extract_frames_every(video, inum, iden) ==
    IF ~video.opened
    THEN ExtractRaised("Could not open video file")
    ELSE IF video.fps = 0
    THEN ExtractRaised("float division by zero")
    ELSE ReadLoop(video.fps, IntOfProduct(video.fps, inum, iden),
                  video.nframes, 0, << >>, << >>)

\* the stride of the call of main.py 87
FrameInterval(fps) == IntOfProduct(fps, IntervalNum, IntervalDen)

\* main.py 87: extract_frames(video_path, interval_seconds=0.5)
extract_frames(video) == extract_frames_every(video, IntervalNum, IntervalDen)

\* ------------------------------------------------------------------ state
VARIABLES
    objects,            \* the ProcessingStatus objects, by video id
    processing_status,  \* keys of the global registry dict
    next_id,            \* number of video ids generated so far
    background,         \* ids whose background task has not yet reached the executor
    executor,           \* work queue of the ThreadPoolExecutor(max_workers=1)
    done,               \* ids whose process_video_sync call has ended
    output_frames,      \* the result files, by video id (derived video name)
    pc,                 \* worker thread: line of main.py about to run
    video_id,           \* worker thread: job being processed (0: none)
    frames,             \* worker local
    timestamps,         \* worker local
    i,                  \* worker local: loop index
    results,            \* worker local: accumulated frame results
    exc,                \* worker local: message of the exception being handled
    poll_pc,            \* event loop: line of to_dict about to run ("idle": no poll)
    poll_id,            \* event loop: id being polled (0: none)
    snapshot,           \* event loop: the dict to_dict is building
    last_polled,        \* id, status and progress of the last snapshot returned
    saved,              \* loop indices whose overlay file the running call wrote
    call,               \* a call of one function on its own: name and arguments
    rets                \* what the calls of that function returned so far

workerVars == <<pc, video_id, frames, timestamps, i, results, exc, saved>>
pollVars == <<poll_pc, poll_id, snapshot, last_polled>>
sysVars == <<objects, processing_status, next_id, background, executor, done,
             output_frames, pc, video_id, frames, timestamps, i, results, exc,
             saved>>
pureVars == <<call, rets>>
vars == <<sysVars, pollVars, pureVars>>

\* current_step strings, kept as their template and arguments
Step(text, a, b, msg) == [text |-> text, a |-> a, b |-> b, msg |-> msg]

\* main.py 46-55
NewProcessingStatus ==
    [status |-> "uploaded",
     progress |-> Int2Rat(0),
     current_step |-> Step("File uploaded successfully", 0, 0, ""),
     total_frames |-> 0,
     processed_frames |-> 0,
     error_message |-> None]

\* a dict entry to_dict has not evaluated yet
Unread == "unread"

EmptySnapshot ==
    [status |-> Unread, progress |-> Unread, current_step |-> Unread,
     total_frames |-> Unread, processed_frames |-> Unread,
     error_message |-> Unread]

NoPoll == [id |-> 0, status |-> "none", progress |-> Int2Rat(0)]

\* the service after start-up: empty registry, idle executor
InitService ==
    /\ objects = [id \in Ids |-> NoObject]
    /\ processing_status = {}
    /\ next_id = 0
    /\ background = {}
    /\ executor = << >>
    /\ done = {}
    /\ output_frames = [id \in Ids |-> NoFile]
    /\ pc = "idle"
    /\ video_id = 0
    /\ frames = << >>
    /\ timestamps = << >>
    /\ i = 0
    /\ results = << >>
    /\ exc = None
    /\ poll_pc = "idle"
    /\ poll_id = 0
    /\ snapshot = EmptySnapshot
    /\ last_polled = NoPoll
    /\ saved = {}

\* no function is called on its own
NoCall == [fn |-> "none"]

Init ==
    /\ InitService
    /\ call = NoCall
    /\ rets = << >>


\* ------------------------------------------------- event loop: API handlers

\* main.py 184-221.  ext_ok: the filename ends in .mp4/.mov/.avi; save_ok: copying
\* the upload to uploaded_videos/ succeeds.  A rejected upload raises
\* HTTPException before (400) or instead of (500) touching the registry.
\* Mutant of upload_video: the record is registered before the file is saved,
\* so an upload whose save fails leaves a record that is never dispatched.
upload_video_registers_first(ext_ok, save_ok) ==
    /\ poll_pc = "idle"
    /\ IF ~ext_ok
       THEN UNCHANGED sysVars
       ELSE /\ next_id < MaxJobs
            /\ next_id' = next_id + 1
            /\ objects' = [objects EXCEPT ![next_id + 1] = NewProcessingStatus]
            /\ processing_status' = processing_status \cup {next_id + 1}
            /\ background' = IF save_ok THEN background \cup {next_id + 1}
                                        ELSE background
            /\ UNCHANGED <<executor, done, output_frames, workerVars>>
    /\ UNCHANGED <<pollVars, pureVars>>

upload_video(ext_ok, save_ok) ==
    /\ poll_pc = "idle"
    /\ IF ~ext_ok \/ ~save_ok
       THEN UNCHANGED sysVars
       ELSE /\ next_id < MaxJobs
            /\ next_id' = next_id + 1
            /\ objects' = [objects EXCEPT ![next_id + 1] = NewProcessingStatus]
            /\ processing_status' = processing_status \cup {next_id + 1}
            /\ background' = background \cup {next_id + 1}
            /\ UNCHANGED <<executor, done, output_frames, workerVars>>
    /\ UNCHANGED <<pollVars, pureVars>>

\* main.py 147-150: the background task hands process_video_sync to the executor.
process_video_background(id) ==
    /\ poll_pc = "idle"
    /\ id \in background
    /\ background' = background \ {id}
    /\ executor' = Append(executor, id)
    /\ UNCHANGED <<objects, processing_status, next_id, done, output_frames,
                   workerVars, pollVars, pureVars>>

\* main.py 339-346.  For an id that is not a key of the registry the handler
\* changes nothing (the test of line 342): a stuttering step.
delete_video(id) ==
    /\ poll_pc = "idle"
    /\ id \in processing_status
    /\ processing_status' = processing_status \ {id}
    /\ UNCHANGED <<objects, next_id, background, executor, done, output_frames,
                   workerVars, pollVars, pureVars>>

\* main.py 231-250: what get_results answers for a video name, given the files.
get_results(id) ==
    IF ~output_frames[id].exists
    THEN [code |-> 404, results |-> << >>]
    ELSE IF ~output_frames[id].complete
    THEN [code |-> 500, results |-> << >>]
    ELSE [code |-> 200, results |-> output_frames[id].entries]

\* ------------------------------------------- worker thread: process_video_sync
status == objects[video_id]

SetField(f, v) == objects' = [objects EXCEPT ![video_id][f] = v]

Goto(l) ==
    /\ pc' = l
    /\ UNCHANGED <<video_id, frames, timestamps, i, results, exc, saved>>

\* the call ends (return, or an exception that escapes it): the worker is free
Return ==
    /\ done' = done \cup {video_id}
    /\ pc' = "idle"
    /\ video_id' = 0
    /\ frames' = << >>
    /\ timestamps' = << >>
    /\ i' = 0
    /\ results' = << >>
    /\ exc' = None
    /\ saved' = {}

\* an exception raised inside the try block: control goes to the handler
Raise(msg) ==
    /\ pc' = "L142"
    /\ exc' = msg
    /\ UNCHANGED <<video_id, frames, timestamps, i, results, saved>>

\* what only the event loop thread writes
apiVars == <<processing_status, next_id, background, pollVars, pureVars>>

\* the single worker thread of the executor takes the next queued call
WorkerTake ==
    /\ pc = "idle"
    /\ executor # << >>
    /\ video_id' = Head(executor)
    /\ executor' = Tail(executor)
    /\ pc' = "L79"
    /\ UNCHANGED <<objects, done, output_frames, apiVars,
                   frames, timestamps, i, results, exc, saved>>

\* main.py 79: status = processing_status[video_id]; KeyError is outside the try
L79 ==
    /\ pc = "L79"
    /\ IF video_id \in processing_status
       THEN Goto("L82") /\ UNCHANGED done
       ELSE Return
    /\ UNCHANGED <<objects, executor, output_frames, apiVars>>

\* Mutant of L82: the status written before the extraction is "analyzing".
L82SetsAnalyzing ==
    /\ pc = "L82"
    /\ SetField("status", "analyzing")
    /\ Goto("L83")
    /\ UNCHANGED <<executor, done, output_frames, apiVars>>

\* main.py 82
L82 ==
    /\ pc = "L82"
    /\ SetField("status", "extracting")
    /\ Goto("L83")
    /\ UNCHANGED <<executor, done, output_frames, apiVars>>

L83 ==
    /\ pc = "L83"
    /\ SetField("current_step", Step("Extracting frames from video...", 0, 0, ""))
    /\ Goto("L84")
    /\ UNCHANGED <<executor, done, output_frames, apiVars>>

L84 ==
    /\ pc = "L84"
    /\ SetField("progress", Int2Rat(10))
    /\ Goto("L87")
    /\ UNCHANGED <<executor, done, output_frames, apiVars>>

\* main.py 87: frames, timestamps = analyzer.extract_frames(video_path, 0.5)
L87 ==
    /\ pc = "L87"
    /\ \E video \in Videos :
         LET r == extract_frames(video) IN
         IF r.raised # None
         THEN Raise(r.raised)
         ELSE /\ frames' = r.frames
              /\ timestamps' = r.timestamps
              /\ pc' = "L88"
              /\ UNCHANGED <<video_id, i, results, exc, saved>>
    /\ UNCHANGED <<objects, executor, done, output_frames, apiVars>>

L88 ==
    /\ pc = "L88"
    /\ SetField("total_frames", Len(frames))
    /\ Goto("L89")
    /\ UNCHANGED <<executor, done, output_frames, apiVars>>

L89 ==
    /\ pc = "L89"
    /\ SetField("progress", Int2Rat(20))
    /\ Goto("L90")
    /\ UNCHANGED <<executor, done, output_frames, apiVars>>

\* main.py 90, and the test of line 92
L90 ==
    /\ pc = "L90"
    /\ SetField("current_step", Step("Extracted frames. Starting AI analysis...",
                                     Len(frames), 0, ""))
    /\ Goto(IF frames = << >> THEN "L93" ELSE "L97")
    /\ UNCHANGED <<executor, done, output_frames, apiVars>>

\* Mutant of L93: "if not frames: return", leaving without recording the error.
L93ReturnOnly ==
    /\ pc = "L93"
    /\ Return
    /\ UNCHANGED <<objects, executor, output_frames, apiVars>>

L93 ==
    /\ pc = "L93"
    /\ SetField("status", "error")
    /\ Goto("L94")
    /\ UNCHANGED <<executor, done, output_frames, apiVars>>

\* Mutant of L94: the return of line 95 is missing, control falls into line 97.
L94NoReturn ==
    /\ pc = "L94"
    /\ SetField("error_message", "No frames could be extracted from video")
    /\ Goto("L97")
    /\ UNCHANGED <<executor, done, output_frames, apiVars>>

\* main.py 94-95
L94 ==
    /\ pc = "L94"
    /\ SetField("error_message", "No frames could be extracted from video")
    /\ Return
    /\ UNCHANGED <<executor, output_frames, apiVars>>

\* main.py 100: the next element of enumerate(zip(frames, timestamps)) starts
\* the loop body; after the last one control leaves the loop
LoopFrom(k) == IF k < Len(frames) THEN "L102" ELSE "L133"

\* main.py 97-100
L97 ==
    /\ pc = "L97"
    /\ SetField("status", "analyzing")
    /\ pc' = LoopFrom(0)
    /\ results' = << >>
    /\ i' = 0
    /\ UNCHANGED <<video_id, frames, timestamps, exc, saved>>
    /\ UNCHANGED <<executor, done, output_frames, apiVars>>

\* Mutant of L102: enumerate(..., start=1) with i + 1 kept, so i + 2 here.
L102CountsFromTwo ==
    /\ pc = "L102"
    /\ SetField("processed_frames", i + 2)
    /\ Goto("L103")
    /\ UNCHANGED <<executor, done, output_frames, apiVars>>

L102 ==
    /\ pc = "L102"
    /\ SetField("processed_frames", i + 1)
    /\ Goto("L103")
    /\ UNCHANGED <<executor, done, output_frames, apiVars>>

\* Mutant of AnalyzingProgress: the share of the frames still to do.
AnalyzingProgressRemaining(k, n) == Rat(20 * n + 70 * (n - k), n)

\* 20 + (70 * (i + 1) / len(frames)), true division
AnalyzingProgress(k, n) == Rat(20 * n + 70 * k, n)

L103 ==
    /\ pc = "L103"
    /\ SetField("progress", AnalyzingProgress(i + 1, Len(frames)))
    /\ Goto("L104")
    /\ UNCHANGED <<executor, done, output_frames, apiVars>>

L104 ==
    /\ pc = "L104"
    /\ SetField("current_step", Step("Analyzing frame with AI...", i + 1,
                                     Len(frames), ""))
    /\ Goto("L107")
    /\ UNCHANGED <<executor, done, output_frames, apiVars>>

\* str(e) of an exception raised by a library call (detection model, OpenCV,
\* the file system, json): some text other than None
LibraryError == "library error"

\* main.py 107-110: analyze_frame, then create_segmented_frame; both work on
\* the worker's own data, and either may raise
L107 ==
    /\ pc = "L107"
    /\ \/ Goto("L115")
       \/ Raise(LibraryError)
    /\ UNCHANGED <<objects, executor, done, output_frames, apiVars>>

\* main.py 113-115: save_frame writes the overlay file, or raises
L115 ==
    /\ pc = "L115"
    /\ \/ /\ saved' = saved \cup {i}
          /\ pc' = "L118"
          /\ UNCHANGED <<video_id, frames, timestamps, i, results, exc>>
       \/ Raise(LibraryError)
    /\ UNCHANGED <<objects, executor, done, output_frames, apiVars>>

\* main.py 115 when cv2.imwrite of analyzer.py 213 cannot write the file: it
\* returns False, which save_frame discards, and no exception is raised
L115NotWritten ==
    /\ pc = "L115"
    /\ Goto("L118")
    /\ UNCHANGED <<objects, executor, done, output_frames, apiVars>>

\* main.py 120-128
FrameResult(k, ts) == [frame_id |-> k, timestamp |-> ts]

\* main.py 118-128, and 100 again: generate_text_analysis (which may raise),
\* then results.append
L118 ==
    /\ pc = "L118"
    /\ \/ /\ results' = Append(results, FrameResult(i, timestamps[i + 1]))
          /\ i' = i + 1
          /\ pc' = LoopFrom(i + 1)
          /\ UNCHANGED <<video_id, frames, timestamps, exc, saved>>
       \/ Raise(LibraryError)
    /\ UNCHANGED <<objects, executor, done, output_frames, apiVars>>

\* main.py 131-133: open(results_path, 'w') creates or truncates the file
L133 ==
    /\ pc = "L133"
    /\ \/ /\ output_frames' = [output_frames EXCEPT ![video_id] =
                 [exists |-> TRUE, entries |-> << >>, complete |-> FALSE]]
          /\ Goto("L134")
       \/ /\ Raise(LibraryError)
          /\ UNCHANGED output_frames
    /\ UNCHANGED <<objects, executor, done, apiVars>>

\* Mutant of L134: a failure of json.dump is ignored.
L134IgnoresFailure ==
    /\ pc = "L134"
    /\ \/ /\ output_frames' = [output_frames EXCEPT ![video_id] =
                 [exists |-> TRUE, entries |-> results, complete |-> TRUE]]
          /\ Goto("L137")
       \/ /\ UNCHANGED output_frames
          /\ Goto("L137")
    /\ UNCHANGED <<objects, executor, done, apiVars>>

\* main.py 134: json.dump writes the document piece by piece and the with block
\* closes the file whether or not it raises; when it raises, what is left on
\* disk is the beginning of a document, which json.load cannot parse
L134 ==
    /\ pc = "L134"
    /\ \/ /\ output_frames' = [output_frames EXCEPT ![video_id] =
                 [exists |-> TRUE, entries |-> results, complete |-> TRUE]]
          /\ Goto("L137")
       \/ /\ UNCHANGED output_frames
          /\ Raise(LibraryError)
    /\ UNCHANGED <<objects, executor, done, apiVars>>

L137 ==
    /\ pc = "L137"
    /\ SetField("status", "complete")
    /\ Goto("L138")
    /\ UNCHANGED <<executor, done, output_frames, apiVars>>

L138 ==
    /\ pc = "L138"
    /\ SetField("progress", Int2Rat(100))
    /\ Goto("L139")
    /\ UNCHANGED <<executor, done, output_frames, apiVars>>

L139 ==
    /\ pc = "L139"
    /\ SetField("current_step", Step("Analysis complete! Processed frames.",
                                     Len(frames), 0, ""))
    /\ Return
    /\ UNCHANGED <<executor, output_frames, apiVars>>

\* Mutant of L142: the handler records the message but not the status.
L142KeepsStatus ==
    /\ pc = "L142"
    /\ Goto("L143")
    /\ UNCHANGED <<objects, executor, done, output_frames, apiVars>>

\* main.py 141-142: except Exception as e
L142 ==
    /\ pc = "L142"
    /\ SetField("status", "error")
    /\ Goto("L143")
    /\ UNCHANGED <<executor, done, output_frames, apiVars>>

L143 ==
    /\ pc = "L143"
    /\ SetField("error_message", exc)
    /\ Goto("L144")
    /\ UNCHANGED <<executor, done, output_frames, apiVars>>

\* main.py 144-145
L144 ==
    /\ pc = "L144"
    /\ SetField("current_step", Step("Error during processing", 0, 0, exc))
    /\ Return
    /\ UNCHANGED <<executor, output_frames, apiVars>>

process_video_sync ==
    \/ L79 \/ L82 \/ L83 \/ L84 \/ L87 \/ L88 \/ L89 \/ L90 \/ L93 \/ L94
    \/ L97 \/ L102 \/ L103 \/ L104 \/ L107 \/ L115 \/ L118
    \/ L133 \/ L134 \/ L137 \/ L138 \/ L139 \/ L142 \/ L143 \/ L144

Worker == WorkerTake \/ process_video_sync

\* ------------------------------------- event loop: get_processing_status
\* The handler has no await: once it starts, no other handler runs on the event
\* loop until it returns, but the worker thread keeps running.

\* main.py 223-229
get_processing_status(id) ==
    /\ poll_pc = "idle"
    /\ IF id \notin processing_status
       THEN UNCHANGED pollVars
       ELSE /\ poll_id' = id
            /\ poll_pc' = "D61"
            /\ snapshot' = EmptySnapshot
            /\ UNCHANGED last_polled
    /\ UNCHANGED <<sysVars, pureVars>>

\* to_dict evaluates one attribute of the record
ReadField(here, next, f) ==
    /\ poll_pc = here
    /\ snapshot' = [snapshot EXCEPT ![f] = objects[poll_id][f]]
    /\ poll_pc' = next
    /\ UNCHANGED <<poll_id, last_polled>>
    /\ UNCHANGED <<sysVars, pureVars>>

\* main.py 61
D61 == ReadField("D61", "D62", "status")

\* main.py 62
D62 == ReadField("D62", "D63", "progress")

\* main.py 63
D63 == ReadField("D63", "D64", "current_step")

\* main.py 64
D64 == ReadField("D64", "D65", "total_frames")

\* main.py 65
D65 == ReadField("D65", "D67", "processed_frames")

\* main.py 67
D67 == ReadField("D67", "D68", "error_message")

\* Mutant of D68: a job polled in a terminal status is dropped from the registry.
D68DropsFinished ==
    /\ poll_pc = "D68"
    /\ last_polled' = [id |-> poll_id, status |-> snapshot.status,
                       progress |-> snapshot.progress]
    /\ poll_pc' = "idle"
    /\ poll_id' = 0
    /\ snapshot' = EmptySnapshot
    /\ processing_status' =
          IF snapshot.status \in {"complete", "error"}
          THEN processing_status \ {poll_id}
          ELSE processing_status
    /\ UNCHANGED <<objects, next_id, background, executor, done, output_frames,
                   workerVars, pureVars>>

\* main.py 68 and 229: the dict is returned to the client
D68 ==
    /\ poll_pc = "D68"
    /\ last_polled' = [id |-> poll_id, status |-> snapshot.status,
                       progress |-> snapshot.progress]
    /\ poll_pc' = "idle"
    /\ poll_id' = 0
    /\ snapshot' = EmptySnapshot
    /\ UNCHANGED <<sysVars, pureVars>>

to_dict == D61 \/ D62 \/ D63 \/ D64 \/ D65 \/ D67 \/ D68

\* ------------------------------------------------ functions on their own
\* A function of the analyzer called directly, up to MaxCalls times with the
\* same arguments; rets collects what the calls returned.

\* extract_frames on any source, with interval_seconds a number of half seconds
ExtractCalls ==
    [fn : {"extract_frames"},
     video : [opened : BOOLEAN, fps : 0..MaxRate, nframes : 0..MaxLen],
     inum : 1..MaxHalfSeconds, iden : {IntervalDen}]

\* analyzer.py 36-78
CallExtractFrames ==
    /\ call.fn = "extract_frames"
    /\ Len(rets) < MaxCalls
    /\ rets' = Append(rets, extract_frames_every(call.video, call.inum, call.iden))
    /\ UNCHANGED <<sysVars, pollVars, call>>

\* ------------------------------------ analyzer.py: generate_text_analysis
\* A string is kept as the sequence of the pieces it is concatenated from.

\* analyzer.py 17-22
navigation_classes ==
    {"person", "bicycle", "car", "motorcycle", "bus", "truck",
     "traffic light", "fire hydrant", "stop sign", "parking meter",
     "bench", "backpack", "umbrella", "handbag", "suitcase",
     "sports ball", "bottle", "chair", "potted plant", "skateboard"}

\* Mutant of VehicleClasses: bicycles are counted among the vehicles.
VehicleClassesWithBicycle == {"car", "bus", "truck", "motorcycle", "bicycle"}

\* analyzer.py 232
VehicleClasses == {"car", "bus", "truck", "motorcycle"}

\* analyzer.py 233
SignalClasses == {"traffic light", "stop sign"}

\* detected_objects, kept as the number of detections of each class: the text
\* reads the list only through counts, sets of classes, and vehicles[0] of a
\* one-element list
RECURSIVE CountIn(_, _)
CountIn(objs, classes) ==
    IF classes \cap DOMAIN objs = {}
    THEN 0
    ELSE LET c == CHOOSE c \in classes \cap DOMAIN objs : TRUE
         IN objs[c] + CountIn(objs, classes \ {c})

\* set(...) of the classes of the objects counted in classes
ClassSet(objs, classes) == {c \in classes \cap DOMAIN objs : objs[c] > 0}

\* list(set(...)): the elements of S in some order.  The order in which Python
\* iterates a set of strings follows their hashes, which differ from one
\* interpreter run to the next, so every order is possible.
Orders(S) ==
    {f \in [1..Cardinality(S) -> S] : \A x \in S : \E k \in DOMAIN f : f[k] = x}

\* sep.join(parts)
RECURSIVE Join(_, _)
Join(parts, sep) ==
    IF parts = << >> THEN << >>
    ELSE IF Len(parts) = 1 THEN parts[1]
    ELSE parts[1] \o <<sep>> \o Join(Tail(parts), sep)

\* the format :02d of a non-negative integer
Pad2(n) == IF n < 10 THEN <<"0", ToString(n)>> ELSE <<ToString(n)>>

\* analyzer.py 237: f"{int(timestamp//60):02d}:{int(timestamp%60):02d}"
TimeStr(timestamp) ==
    LET whole == timestamp.num \div timestamp.den
    IN Pad2(whole \div 60) \o <<":">> \o Pad2(whole % 60)

\* Mutant of scene_type: a street is busy from three people on.
scene_type_busy_from_three(vehicles, people_count) ==
    IF vehicles > 0 /\ people_count > 2 THEN "Busy street"
    ELSE IF people_count > 0 /\ vehicles = 0 THEN "Pedestrian area"
    ELSE IF vehicles > 0 THEN "Traffic area"
    ELSE IF people_count > 0 THEN "Public space"
    ELSE "Open area"

\* analyzer.py 276-285; vehicles is len(vehicles)
scene_type(vehicles, people_count) ==
    IF vehicles > 0 /\ people_count > 3 THEN "Busy street"
    ELSE IF people_count > 0 /\ vehicles = 0 THEN "Pedestrian area"
    ELSE IF vehicles > 0 THEN "Traffic area"
    ELSE IF people_count > 0 THEN "Public space"
    ELSE "Open area"

\* Mutant of NoNavObjects: the test is made on the whole detection list.
NoObjectsAtAll(objs) == CountIn(objs, DOMAIN objs) = 0

\* analyzer.py 228 and 240: not nav_objects
NoNavObjects(objs) == CountIn(objs, navigation_classes) = 0

\* analyzer.py 215-293.  vehicle_types and signal_types are the lists of lines
\* 255 and 272, in the order the run iterates the two sets.
generate_text_analysis(objs, timestamp, vehicle_types, signal_types) ==
    LET people_count == CountIn(objs, {"person"})
        vehicles == CountIn(objs, VehicleClasses)
        traffic_signals == CountIn(objs, SignalClasses)
        bicycles == CountIn(objs, {"bicycle"})
        time_str == <<"[">> \o TimeStr(timestamp) \o <<"] ">>
        people_part ==
            IF people_count = 0 THEN << >>
            ELSE IF people_count = 1 THEN << <<"person visible">> >>
            ELSE << <<ToString(people_count), " people in view">> >>
        vehicle_part ==
            IF vehicles = 0 THEN << >>
            ELSE IF vehicles = 1
            THEN << <<CHOOSE c \in VehicleClasses \cap DOMAIN objs : objs[c] = 1,
                      " present">> >>
            ELSE << <<ToString(vehicles), " vehicles (">>
                    \o Join([k \in DOMAIN vehicle_types |-> <<vehicle_types[k]>>],
                            ", ")
                    \o <<")">> >>
        bicycle_part ==
            IF bicycles = 0 THEN << >>
            ELSE IF bicycles = 1 THEN << <<"cyclist nearby">> >>
            ELSE << <<ToString(bicycles), " cyclists">> >>
        signal_part ==
            IF traffic_signals = 0 THEN << >>
            ELSE << <<"traffic infrastructure: ">>
                    \o Join([k \in DOMAIN signal_types |-> <<signal_types[k]>>],
                            ", ") >>
        description_parts ==
            people_part \o vehicle_part \o bicycle_part \o signal_part
    IN  IF NoNavObjects(objs)
        THEN time_str \o <<"Clear view ahead with minimal activity.">>
        ELSE IF description_parts # << >>
        THEN time_str \o <<scene_type(vehicles, people_count), ": ">>
             \o Join(description_parts, ", ") \o <<".">>
        ELSE time_str \o <<scene_type(vehicles, people_count),
                           " with minimal activity.">>

\* the detection lists the calls are made with: people, cars and bicycles,
\* at most MaxOthers of another vehicle class, and, present or not (the text
\* reads nothing but their presence), the two signal classes, a navigation
\* class no clause mentions and a class that is not one
Detections ==
    [{"person"} -> 0..MaxPeople]
    \X [{"car", "bicycle"} -> 0..MaxCars]
    \X [{"bus"} -> 0..MaxOthers]
    \X [{"traffic light", "stop sign", "bench", "dog"} -> {0, 1}]

\* the parts as one mapping from class to count
Merge(t) ==
    [c \in UNION {DOMAIN t[k] : k \in DOMAIN t} |->
        t[CHOOSE k \in DOMAIN t : c \in DOMAIN t[k]][c]]

TextCalls ==
    {[fn |-> "generate_text_analysis", objs |-> Merge(t), timestamp |-> ts] :
        t \in Detections,
        ts \in {Rat(k, IntervalDen) : k \in {0, MaxHalfSeconds + 1}}}

CallGenerateTextAnalysis ==
    /\ call.fn = "generate_text_analysis"
    /\ Len(rets) < MaxCalls
    /\ \E vehicle_types \in Orders(ClassSet(call.objs, VehicleClasses)),
          signal_types \in Orders(ClassSet(call.objs, SignalClasses)) :
          rets' = Append(rets, generate_text_analysis(call.objs, call.timestamp,
                                                      vehicle_types, signal_types))
    /\ UNCHANGED <<sysVars, pollVars, call>>

\* main.py 103 evaluated for iteration i of a loop over n frames
ProgressCalls ==
    {c \in [fn : {"progress"}, i : 0..(MaxLen - 1), n : 1..MaxLen] : c.i < c.n}

EvalProgress ==
    /\ call.fn = "progress"
    /\ Len(rets) < MaxCalls
    /\ rets' = Append(rets, AnalyzingProgress(call.i + 1, call.n))
    /\ UNCHANGED <<sysVars, pollVars, call>>

\* ---------------------------------------------------------- specifications
\* The handlers of the event loop have no await, so each runs to its end before
\* the next starts (poll_pc = "idle" between them); the worker thread runs
\* concurrently with all of them.

\* The service with any number of uploads up to MaxJobs; nobody polls.  A
\* rejected upload changes nothing, a stuttering step that [][Next]_vars allows
\* in any case, so only the accepted ones are listed.
Next ==
    \/ upload_video(TRUE, TRUE)
    \/ \E id \in Ids : process_video_background(id)
    \/ \E id \in Ids : delete_video(id)
    \/ Worker

Spec == Init /\ [][Next]_vars

\* One client session: a single upload, polled at arbitrary points while the
\* worker runs.
NextPoll ==
    \/ /\ next_id = 0
       /\ \E ext_ok \in BOOLEAN, save_ok \in BOOLEAN :
             upload_video(ext_ok, save_ok)
    \/ \E id \in Ids : process_video_background(id)
    \/ \E id \in Ids : delete_video(id)
    \/ Worker
    \/ \E id \in Ids : get_processing_status(id)
    \/ to_dict

SpecPoll == Init /\ [][NextPoll]_vars

\* One job on a host where an overlay file may fail to be written (directory
\* removed, disk full): cv2.imwrite then returns False.  Spec and SpecPoll are
\* the service on a host where every write succeeds or raises.
NextDisk ==
    \/ /\ next_id = 0
       /\ upload_video(TRUE, TRUE)
    \/ \E id \in Ids : process_video_background(id)
    \/ \E id \in Ids : delete_video(id)
    \/ Worker
    \/ L115NotWritten

SpecDisk == Init /\ [][NextDisk]_vars

\* One function called on its own, on each of the argument lists above.
InitPure ==
    /\ InitService
    /\ call \in ExtractCalls \cup TextCalls \cup ProgressCalls
    /\ rets = << >>

NextPure ==
    \/ CallExtractFrames
    \/ CallGenerateTextAnalysis
    \/ EvalProgress

SpecPure == InitPure /\ [][NextPure]_vars

\* ------------------------------------------------------------------ claims
Terminal == {"complete", "error"}
Running == {"extracting", "analyzing"}

\* the ids uploads have produced
Jobs == 1..next_id

\* C1: the status of every job moves only along Uploaded -> Extracting ->
\* Analyzing -> Complete, with Error entered only from Extracting or Analyzing;
\* nothing leaves Complete or Error.
StatusEdges ==
    {<<"absent", "uploaded">>, <<"uploaded", "extracting">>,
     <<"extracting", "analyzing">>, <<"analyzing", "complete">>,
     <<"extracting", "error">>, <<"analyzing", "error">>}

C1_StatusMachine ==
    [][\A id \in Ids :
         \/ objects'[id].status = objects[id].status
         \/ <<objects[id].status, objects'[id].status>> \in StatusEdges]_vars

\* one job ran to Complete and another failed while analyzing
C1_Witness ==
    \E a, b \in Jobs :
        /\ objects[a].status = "complete"
        /\ objects[b].status = "error"
        /\ objects[b].processed_frames > 0

\* C2: over the polls of one job, as long as the previous poll did not show a
\* terminal status, the progress a poll reads is at least the progress the
\* previous poll returned.
ProgressRead == poll_pc \in {"D63", "D64", "D65", "D67", "D68"}

C2_PolledProgressMonotone ==
    (ProgressRead /\ last_polled.id = poll_id /\ last_polled.status \notin Terminal)
        => RatLeq(last_polled.progress, snapshot.progress)

\* two polls during the analysis, the second reading a larger progress
C2_Witness ==
    /\ ProgressRead
    /\ last_polled.id = poll_id
    /\ last_polled.status = "analyzing"
    /\ snapshot.status = "analyzing"
    /\ RatLt(last_polled.progress, snapshot.progress)

\* C3: at most one job is Extracting or Analyzing, and it is the job the single
\* worker thread is running; every other job is still Uploaded or already
\* terminal.
C3_OneJobAtATime ==
    \A a \in Jobs :
        objects[a].status \in Running =>
            /\ video_id = a
            /\ \A b \in Jobs \ {a} : objects[b].status \notin Running

\* a job waits in the executor's queue, still Uploaded, while another is analyzed
C3_Witness ==
    \E a, b \in Jobs :
        /\ objects[a].status = "analyzing"
        /\ objects[b].status = "uploaded"
        /\ \E k \in 1..Len(executor) : executor[k] = b

\* C4: once a call of the pipeline has raised, control is in the handler and
\* stays out of the loop (no further frame is processed), the status is never
\* Complete, and the handler ends with status Error and an error message; a
\* job in Error stays in Error.
Handling == pc \in {"L142", "L143", "L144"}

C4_HandlerInv ==
    /\ exc # None => Handling
    /\ Handling => objects[video_id].status # "complete"
    /\ pc \in {"L143", "L144"} => objects[video_id].status = "error"
    /\ pc = "L144" => objects[video_id].error_message # None

C4_HandlerStep ==
    /\ Handling =>
          /\ objects'[video_id].processed_frames
                 = objects[video_id].processed_frames
          /\ pc' # "idle" => (Handling' /\ results' = results /\ i' = i)
          /\ pc' = "idle" =>
                /\ objects'[video_id].status = "error"
                /\ objects'[video_id].error_message # None
    /\ \A id \in Jobs :
          objects[id].status = "error" => objects'[id].status = "error"

C4_FailureEndsInError == []C4_HandlerInv /\ [][C4_HandlerStep]_vars

\* a job failed on its first frame with a second one left unprocessed
C4_Witness ==
    \E id \in done :
        /\ objects[id].status = "error"
        /\ objects[id].error_message = LibraryError
        /\ objects[id].processed_frames = 1
        /\ objects[id].total_frames = 2

\* C5: a dispatched job whose process_video_sync call has ended is Complete or
\* Error, whatever the API did meanwhile (delete_video included).
C5_EndedJobsAreTerminal ==
    \A id \in done : objects[id].status \in Terminal

\* C6: whenever a job is Complete, its result file holds the complete document
\* with the job's full result sequence, total_frames entries long.
C6_CompleteHasResults ==
    \A id \in Jobs :
        objects[id].status = "complete" =>
            /\ output_frames[id].exists
            /\ output_frames[id].complete
            /\ Len(output_frames[id].entries) = objects[id].total_frames
            /\ video_id = id => output_frames[id].entries = results

\* a job is Complete with two frame results on disk
C6_Witness ==
    \E id \in Jobs :
        /\ objects[id].status = "complete"
        /\ objects[id].total_frames = 2
        /\ Len(output_frames[id].entries) = 2

\* C7: at every point, get_results for a job that is not Complete answers
\* not-found (404).
C7_NotCompleteIsNotFound ==
    \A id \in Jobs :
        objects[id].status # "complete" => get_results(id).code = 404

\* C8: in every state, error_message is present iff status is Error.
C8_ErrorMessageIffError ==
    \A id \in Jobs :
        (objects[id].error_message # None) <=> (objects[id].status = "error")

\* C9: processed_frames and total_frames are never negative, and
\* processed_frames never exceeds total_frames (before the extraction has set
\* total_frames both are 0).
C9_FrameCounters ==
    \A id \in Jobs :
        /\ objects[id].processed_frames >= 0
        /\ objects[id].total_frames >= 0
        /\ objects[id].processed_frames <= objects[id].total_frames

\* the last of two frames is being processed
C9_Witness ==
    \E id \in Jobs :
        /\ objects[id].status = "analyzing"
        /\ objects[id].total_frames = 2
        /\ objects[id].processed_frames = 2

\* C10: the accumulated frame results, and every result document written, are
\* strictly increasing in frame_id and in timestamp.
StrictlyIncreasing(rs) ==
    \A a, b \in 1..Len(rs) :
        a < b => /\ rs[a].frame_id < rs[b].frame_id
                 /\ RatLt(rs[a].timestamp, rs[b].timestamp)

C10_ResultsOrdered ==
    /\ StrictlyIncreasing(results)
    /\ \A id \in Ids : StrictlyIncreasing(output_frames[id].entries)

\* two results accumulated, and later written
C10_Witness ==
    /\ Len(results) = 2
    /\ output_frames[video_id].complete
    /\ Len(output_frames[video_id].entries) = 2

\* ----------------------------------------------------- claims C11 to C20
\* Python's round() of a non-negative num/den: to the nearest integer, a tie
\* to the even one
RoundHalfEven(num, den) ==
    LET q == num \div den
        twice == 2 * (num % den)
    IN IF twice < den THEN q
       ELSE IF twice > den THEN q + 1
       ELSE IF q % 2 = 0 THEN q ELSE q + 1

CeilDiv(a, b) == (a + b - 1) \div b

\* the stride the specification gives: max(1, round(f * i))
ClaimedStride(fps, inum, iden) ==
    LET r == RoundHalfEven(fps * inum, iden) IN IF r < 1 THEN 1 ELSE r

\* C11: for every interval i > 0 and frame rate f > 0, extract_frames on a
\* source that opens and has N readable frames returns exactly ceil(N / s)
\* frames with s = max(1, round(f * i)), exactly the frame of index 0 at
\* timestamp 0 when s >= N, and never fails because the stride is 0.
C11_ExtractCount ==
    (call.fn = "extract_frames" /\ call.video.opened /\ call.video.fps > 0) =>
        \A k \in DOMAIN rets :
            LET s == ClaimedStride(call.video.fps, call.inum, call.iden)
                N == call.video.nframes
            IN /\ rets[k].raised = None
               /\ Len(rets[k].frames) = CeilDiv(N, s)
               /\ (N >= 1 /\ s >= N) =>
                     /\ rets[k].frames = <<0>>
                     /\ rets[k].timestamps = <<Int2Rat(0)>>

\* str(e) of the ValueError of analyzer.py 49 (without the path)
CouldNotOpen == "Could not open video file"

\* the source of job id could not be opened: the exception is being handled,
\* or its message is recorded
SourceUnavailable(id) ==
    \/ video_id = id /\ exc = CouldNotOpen
    \/ objects[id].error_message = CouldNotOpen

\* C12 as stated: when the video source cannot be opened the job goes from
\* Uploaded straight to Error, so its record never shows anything but
\* Uploaded or Error.
C12_UploadedThenError ==
    \A id \in Jobs :
        SourceUnavailable(id) => objects[id].status \in {"uploaded", "error"}

C12_Inv ==
    \A id \in Jobs :
        /\ (id # video_id /\ id \notin done) => objects[id].status = "uploaded"
        /\ (id = video_id /\ pc \in {"L79", "L82", "L83", "L84", "L87"}) =>
              objects[id].status \in {"uploaded", "extracting"}
        /\ SourceUnavailable(id) =>
              /\ objects[id].status \in {"extracting", "error"}
              /\ objects[id].total_frames = 0
              /\ objects[id].processed_frames = 0
        /\ (id \in done /\ objects[id].error_message = CouldNotOpen) =>
              objects[id].status = "error"

C12_Step ==
    \A id \in Jobs :
        (SourceUnavailable(id) /\ objects[id].status # objects'[id].status) =>
            /\ objects[id].status = "extracting"
            /\ objects'[id].status = "error"

\* C12, amended: when the video source cannot be opened the job goes
\* Uploaded -> Extracting -> Error: its record shows only Uploaded and
\* Extracting before the failure and only Extracting and Error after it, never
\* Analyzing, its frame counters stay 0, and it ends in Error.
C12_UnopenedSourceEndsInError == []C12_Inv /\ [][C12_Step]_vars

C12_Witness ==
    \E id \in Jobs :
        /\ id \in done
        /\ objects[id].status = "error"
        /\ objects[id].error_message = CouldNotOpen

\* C13: generate_text_analysis is deterministic: any two calls with the same
\* detections and timestamp return the same string, also when the calls are
\* made in runs that iterate the sets of class labels in different orders.
C13_Deterministic ==
    call.fn = "generate_text_analysis" =>
        \A j \in DOMAIN rets, k \in DOMAIN rets : rets[j] = rets[k]

TextCall == call.fn = "generate_text_analysis"

\* the words between the time stamp and the clauses of a returned text
SceneOf(text) == text[(CHOOSE j \in DOMAIN text : text[j] = "] ") + 1]

People == CountIn(call.objs, {"person"})
Vehicles == CountIn(call.objs, VehicleClasses)

IsClearFallback(text) == SceneOf(text) = "Clear view ahead with minimal activity."
IsNoClauseFallback(text) == text[Len(text)] = " with minimal activity."

Detected == {c \in DOMAIN call.objs : call.objs[c] > 0}

\* C15 as stated: the "clear / no objects" fallback is returned exactly when
\* the detection list is empty; a non-empty list never yields it.
C15_ClearIffEmpty ==
    TextCall =>
        \A k \in DOMAIN rets : IsClearFallback(rets[k]) <=> Detected = {}

\* C15, amended: the "clear" fallback is returned exactly when no detection
\* is navigation-relevant (the empty list included); the other fallback,
\* "Open area with minimal activity.", exactly when some detection is
\* navigation-relevant but none is a person, a vehicle, a bicycle or a traffic
\* signal; a list with a navigation-relevant detection never yields the
\* "clear" fallback.
C15_Fallbacks ==
    TextCall =>
        \A k \in DOMAIN rets :
            /\ IsClearFallback(rets[k]) <=> Detected \cap navigation_classes = {}
            /\ IsNoClauseFallback(rets[k]) <=>
                  /\ Detected \cap navigation_classes # {}
                  /\ Detected \cap ({"person", "bicycle"} \cup VehicleClasses
                                       \cup SignalClasses) = {}
            /\ IsNoClauseFallback(rets[k]) => SceneOf(rets[k]) = "Open area"
            /\ ~(IsClearFallback(rets[k]) /\ IsNoClauseFallback(rets[k]))

C15_Witness ==
    /\ TextCall
    /\ Detected = {"dog"}
    /\ rets # << >>
    /\ IsClearFallback(rets[1])

\* C16: whenever a poll observes status Complete, the progress it observes
\* is 100.
C16_CompleteIsHundred ==
    (poll_pc = "D68" /\ snapshot.status = "complete") =>
        snapshot.progress = Int2Rat(100)

\* C17: processed_frames is incremented only after a frame has been
\* processed, so while a job runs it equals the number of frame results
\* appended so far, and a frame that fails is not counted.
C17_ProcessedEqualsAppended ==
    video_id # 0 => objects[video_id].processed_frames = Len(results)

\* C18: progress is an integer in 0..100; while a job is analyzing it is
\* 20 + 70 * processed / total rounded to an integer.
C18_ProgressIsRounded ==
    call.fn = "progress" =>
        \A k \in DOMAIN rets :
            /\ RatIsInt(rets[k])
            /\ RatLeq(Int2Rat(0), rets[k])
            /\ RatLeq(rets[k], Int2Rat(100))
            /\ rets[k] = Int2Rat(RoundHalfEven(20 * call.n + 70 * (call.i + 1),
                                               call.n))

\* C19: if save_frame does not write the overlay file of a frame, the job
\* goes from Analyzing to Error and never to Complete: a job that is Complete
\* has the overlay file of every one of its frames.
C19_UnwrittenOverlayIsError ==
    (video_id # 0 /\ objects[video_id].status = "complete") =>
        saved = 0..(Len(frames) - 1)

\* the message of main.py 94
NoFramesMessage == "No frames could be extracted from video"

\* C20: when extraction succeeds but yields zero frames the job goes from
\* Extracting to Error with that error message, is never Analyzing, gets no
\* result document, and its progress stays frozen at 10.
C20_ZeroFramesFrozenAtTen ==
    \A id \in Jobs :
        objects[id].error_message = NoFramesMessage =>
            /\ objects[id].status = "error"
            /\ objects[id].processed_frames = 0
            /\ ~output_frames[id].exists
            /\ objects[id].progress = Int2Rat(10)

\* ----------------------------------------------------- claims C21 to C25
\* the source frames whose index is a multiple of the stride s (of 0: index 0)
MultiplesOf(s, N) == {j \in 0..(N - 1) : IF s = 0 THEN j = 0 ELSE j % s = 0}

\* C21: extract_frames returns exactly the source frames whose index is a
\* multiple of the stride, in increasing index order, each with timestamp
\* index / fps, and as many timestamps as frames.
C21_MultiplesOfStride ==
    (call.fn = "extract_frames" /\ call.video.opened /\ call.video.fps > 0) =>
        \A k \in DOMAIN rets :
            LET r == rets[k]
                picked == MultiplesOf(IntOfProduct(call.video.fps, call.inum,
                                                   call.iden),
                                      call.video.nframes)
            IN /\ r.raised = None
               /\ Len(r.frames) = Len(r.timestamps)
               /\ Len(r.frames) = Cardinality(picked)
               /\ {r.frames[j] : j \in DOMAIN r.frames} = picked
               /\ \A j \in DOMAIN r.frames :
                     /\ j > 1 => r.frames[j - 1] < r.frames[j]
                     /\ r.timestamps[j].num * call.video.fps
                           = r.frames[j] * r.timestamps[j].den

\* piece a occurs in the text; piece a is directly followed by piece b
HasPiece(text, a) == \E j \in DOMAIN text : text[j] = a
Follows(text, a, b) ==
    \E j \in 1..(Len(text) - 1) : text[j] = a /\ text[j + 1] = b

MotorVehicles == {"car", "bus", "truck", "motorcycle"}

FieldAt ==
    [D61 |-> "status", D62 |-> "progress", D63 |-> "current_step",
     D64 |-> "total_frames", D65 |-> "processed_frames",
     D67 |-> "error_message"]

\* a poll is only ever in progress for an id of the registry
C23_Inv == poll_pc # "idle" => poll_id \in processing_status

\* a step of the poll handler: it copies the field it reads from the record,
\* returns what it has read, and writes neither the registry nor any record
C23_Step ==
    pollVars' # pollVars =>
        /\ objects' = objects
        /\ processing_status' = processing_status
        /\ poll_pc \in DOMAIN FieldAt =>
              snapshot'[FieldAt[poll_pc]] = objects[poll_id][FieldAt[poll_pc]]
        /\ poll_pc = "D68" =>
              /\ last_polled'.id = poll_id
              /\ last_polled'.status = snapshot.status
              /\ last_polled'.progress = snapshot.progress

\* C23: get_processing_status is read-only: for an id of the registry it
\* returns the fields of that id's record, and no step of it changes the
\* registry or any field of any record.
C23_PollIsReadOnly == []C23_Inv /\ [][C23_Step]_vars

C23_Witness ==
    /\ last_polled.id # 0
    /\ last_polled.status = "analyzing"
    /\ poll_pc = "idle"

\* C24: every snapshot a poll returns equals the record as it was at one
\* instant; in particular none shows status Extracting, or total_frames = 0,
\* together with processed_frames >= 1.
C24_SnapshotIsOneInstant ==
    poll_pc = "D68" =>
        ~ /\ snapshot.status = "extracting" \/ snapshot.total_frames = 0
          /\ snapshot.processed_frames >= 1

\* how many times id stands in the executor's queue
Queued(id) == Cardinality({k \in DOMAIN executor : executor[k] = id})

\* how many calls of process_video_sync for id are pending, running or ended
Dispatches(id) ==
    (IF id \in background THEN 1 ELSE 0) + Queued(id)
      + (IF video_id = id THEN 1 ELSE 0) + (IF id \in done THEN 1 ELSE 0)

\* an id no upload has produced has no record, no registry entry, no call;
\* an id an upload has produced has exactly one call
C25_Inv ==
    \A id \in Ids :
        IF id \in Jobs
        THEN Dispatches(id) = 1
        ELSE /\ objects[id] = NoObject
             /\ id \notin processing_status
             /\ Dispatches(id) = 0

C25_Step ==
    /\ \A ext_ok \in BOOLEAN, save_ok \in BOOLEAN :
          (upload_video(ext_ok, save_ok) /\ ~(ext_ok /\ save_ok)) =>
              UNCHANGED <<objects, processing_status, next_id, background,
                          executor>>
    /\ processing_status' \ processing_status # {} => upload_video(TRUE, TRUE)
    /\ upload_video(TRUE, TRUE) =>
          \E new \in Ids \ processing_status :
              /\ new \notin Jobs
              /\ processing_status' = processing_status \cup {new}
              /\ objects'[new].status = "uploaded"
              /\ objects'[new].progress = Int2Rat(0)
              /\ objects'[new].total_frames = 0
              /\ objects'[new].processed_frames = 0
              /\ objects'[new].error_message = None
              /\ \A id \in Ids \ {new} : objects'[id] = objects[id]
              /\ background' = background \cup {new}
              /\ executor' = executor

\* C25: a rejected upload (unsupported extension, or a failure while saving)
\* adds no registry entry and dispatches nothing; an accepted upload adds
\* exactly one record, Uploaded with progress 0, both frame counters 0 and no
\* error message, and process_video_sync is dispatched exactly once for it.
C25_UploadEffects == []C25_Inv /\ [][C25_Step]_vars

C25_Witness ==
    /\ next_id = 1
    /\ processing_status = {1}
    /\ executor = <<1>>
    /\ objects[1].status = "uploaded"

====
